---------------------------- MODULE Spec2Model ----------------------------
(***************************************************************************)
(* Request orchestration of the SearchBox component                        *)
(* (src/src/components/SearchBox.jsx): handleSearch, validateResponse,     *)
(* the timeout timer, the error auto-dismiss timer and the shared          *)
(* abortControllerRef.                                                     *)
(*                                                                         *)
(* JavaScript strings are sequences of one-character strings, so that      *)
(* startsWith, includes, slice and concatenation are computed as the code  *)
(* computes them.                                                          *)
(*                                                                         *)
(* The host is a single-threaded event loop.  A task (form submission,     *)
(* arrival of a response, completion of a body read, expiry of a timer)    *)
(* runs to completion, and the continuations it made ready (here: the      *)
(* catch branch of a sequence whose awaited promise was rejected by        *)
(* abort()) run in the microtask checkpoint that follows, before the next  *)
(* task.  A sequence whose rejection is ready has pc = "aborted"; tasks    *)
(* are enabled only when no such sequence exists (Quiescent).              *)
(*                                                                         *)
(* Both setTimeout calls use the same delay (10000 ms, lines 54 and 96),   *)
(* so timers expire in the order in which they were started: the pending   *)
(* timers form a FIFO queue, from which clearTimeout removes an entry.     *)
(***************************************************************************)
EXTENDS Integers, Sequences, FiniteSets, TLC

\* Number of form submissions in a behaviour.
MaxSubmissions == 2

\* text.slice(0, 50), line 18.
SliceLen == 50

Subs == 1..MaxSubmissions

HttpPrefix ==
  <<"h","t","t","p">>

JsonType ==
  <<"a","p","p","l","i","c","a","t","i","o","n","/","j","s","o","n">>

NonJsonTag ==
  <<"n","o","n","-","J","S","O","N">>

NonJsonHead ==
  <<"A","P","I"," ","r","e","t","u","r","n","e","d"," ","n","o","n","-","J","S","O","N"," ","r",
    "e","s","p","o","n","s","e",":"," ">>

Ellipsis ==
  <<".",".",".">>

MsgUnknownApi ==
  <<"U","n","k","n","o","w","n"," ","A","P","I"," ","e","r","r","o","r">>

MsgConfig ==
  <<"A","P","I"," ","e","n","d","p","o","i","n","t"," ","m","i","s","c","o","n","f","i","g","u",
    "r","e","d","."," ","C","h","e","c","k"," ","e","n","v","i","r","o","n","m","e","n","t"," ",
    "v","a","r","i","a","b","l","e","s",".">>

MsgTimedOut ==
  <<"R","e","q","u","e","s","t"," ","t","i","m","e","d"," ","o","u","t"," ","(","1","0"," ","s",
    "e","c","o","n","d","s",")">>

MsgCancelled ==
  <<"R","e","q","u","e","s","t"," ","c","a","n","c","e","l","l","e","d">>

MsgDiagnostic ==
  <<"R","e","c","e","i","v","e","d"," ","i","n","v","a","l","i","d"," ","r","e","s","p","o","n",
    "s","e"," ","f","r","o","m"," ","C","o","d","e","f","o","r","c","e","s","."," ","P","o","s",
    "s","i","b","l","e"," ","i","s","s","u","e","s",":","\n","1","."," ","C","o","d","e","f",
    "o","r","c","e","s"," ","A","P","I"," ","i","s"," ","d","o","w","n","\n","2","."," ","I",
    "n","v","a","l","i","d"," ","h","a","n","d","l","e","\n","3","."," ","R","a","t","e"," ",
    "l","i","m","i","t","i","n","g">>

BaseHttps ==
  <<"h","t","t","p","s",":","/","/","c","f","/","a","p","i","/">>

BaseFtp ==
  <<"f","t","p",":","/","/","c","f","/">>

BaseHtt ==
  <<"h","t","t">>

BaseRelative ==
  <<"/","a","p","i","/","h","t","t","p">>

TypeJsonUtf8 ==
  <<"a","p","p","l","i","c","a","t","i","o","n","/","j","s","o","n",";"," ","c","h","a","r","s",
    "e","t","=","u","t","f","-","8">>

TypeHtml ==
  <<"t","e","x","t","/","h","t","m","l">>

TextLong ==
  <<"<","!","D","O","C","T","Y","P","E"," ","h","t","m","l",">","<","h","t","m","l",">","<","h",
    "e","a","d",">","<","t","i","t","l","e",">","C","o","d","e","f","o","r","c","e","s","<","/",
    "t","i","t","l","e",">","<","/","h","e","a","d",">","<","b","o","d","y",">">>

CommentNotFound ==
  <<"h","a","n","d","l","e","s",":"," ","U","s","e","r"," ","w","i","t","h"," ","h","a","n","d",
    "l","e"," ","x"," ","n","o","t"," ","f","o","u","n","d">>

CommentNonJson ==
  <<"h","a","n","d","l","e",":"," ","n","o","n","-","J","S","O","N"," ","c","h","a","r","a","c",
    "t","e","r","s"," ","a","r","e"," ","n","o","t"," ","a","l","l","o","w","e","d">>

MsgNetwork ==
  <<"F","a","i","l","e","d"," ","t","o"," ","f","e","t","c","h">>

----------------------------------------------------------------------------
\* String.prototype.startsWith
StartsWith(s, p) ==
  /\ Len(p) <= Len(s)
  /\ SubSeq(s, 1, Len(p)) = p

\* String.prototype.includes
Includes(s, p) ==
  \E i \in 0..(Len(s) - Len(p)) : SubSeq(s, i + 1, i + Len(p)) = p

\* String.prototype.slice(0, n)
Slice0(s, n) ==
  SubSeq(s, 1, IF Len(s) < n THEN Len(s) ELSE n)

\* import.meta.env.VITE_CF_URL: absent (undefined) or a string.
ApiBases ==
  { [defined |-> FALSE, text |-> <<>>],
    [defined |-> TRUE, text |-> <<>>],
    [defined |-> TRUE, text |-> BaseHtt],
    [defined |-> TRUE, text |-> BaseFtp],
    [defined |-> TRUE, text |-> BaseRelative],
    [defined |-> TRUE, text |-> BaseHttps] }

\* Misconfigured without the startsWith test of line 46.
Misconfigured_NoPrefix(base) ==
  \/ ~base.defined
  \/ base.text = <<>>

\* !API_BASE || !API_BASE.startsWith("http"), line 46
Misconfigured(base) ==
  \/ ~base.defined
  \/ base.text = <<>>
  \/ ~StartsWith(base.text, HttpPrefix)

\* Values of the content-type header of a response; absent is null.
ContentTypes ==
  { [defined |-> FALSE, text |-> <<>>],
    [defined |-> TRUE, text |-> TypeHtml],
    [defined |-> TRUE, text |-> TypeJsonUtf8] }

\* (response.headers.get("content-type") || "").includes("application/json")
IsJson(ct) ==
  Includes(IF ct.defined THEN ct.text ELSE <<>>, JsonType)

\* Bodies of a response.  A JSON body carries status and comment (an absent
\* comment is as falsy as the empty one and is not listed apart).
NoBody == [kind |-> "none"]

JsonBodies ==
  { [kind |-> "json", status |-> "OK", comment |-> <<>>],
    [kind |-> "json", status |-> "FAILED", comment |-> <<>>],
    [kind |-> "json", status |-> "FAILED", comment |-> CommentNotFound],
    [kind |-> "json", status |-> "FAILED", comment |-> CommentNonJson] }

TextBodies ==
  { [kind |-> "text", text |-> TextLong] }

\* An exception: its name and its message.
Err(n, m) == [name |-> n, message |-> m]

NoErr == [name |-> "", message |-> <<>>]

\* validateResponse, lines 17-18: the error thrown once the text of a
\* response that is not JSON has been read.
TextError(b) ==
  Err("Error", NonJsonHead \o Slice0(b.text, SliceLen) \o Ellipsis)

\* JsonError without the status test of line 22.
JsonError_Lenient(b) == NoErr

\* validateResponse, lines 21-25: the error thrown once the body of a JSON
\* response has been read, or NoErr when the parsed payload is returned.
JsonError(b) ==
  IF b.status # "OK"
    THEN Err("Error", IF b.comment # <<>> THEN b.comment ELSE MsgUnknownApi)
    ELSE NoErr

\* Classify without the "non-JSON" branch of lines 85-89.
Classify_NoDiagnostic(error) ==
  IF error.name = "AbortError" THEN MsgCancelled ELSE error.message

\* The message the catch branch computes, lines 81-92.
Classify(error) ==
  IF error.name = "AbortError"
    THEN MsgCancelled
    ELSE IF Includes(error.message, NonJsonTag)
      THEN MsgDiagnostic
      ELSE error.message

\* The error thrown by the timeout callback, line 53.
TimedOutError == Err("Error", MsgTimedOut)

\* A rejection that would carry the error thrown at line 53.
AbortError_TimedOut == TimedOutError

\* The rejection of fetch and of a body read on an aborted signal.
AbortError == Err("AbortError", <<>>)

\* A transport failure of fetch or of a body read.
NetworkError == Err("TypeError", MsgNetwork)
----------------------------------------------------------------------------
VARIABLES
  apiBase,        \* import.meta.env.VITE_CF_URL
  errorMessage,   \* useState(""), line 7
  showError,      \* useState(false), line 8
  loader,         \* useState(false), line 9
  userInfo,       \* the caller's profile slot: 0 is null, s the result of submission s
  userRatings,    \* the caller's rating-history slot
  userProblems,   \* the caller's submission-history slot
  current,        \* abortControllerRef.current: 0 is the controller of line 10,
                  \* s the one created by submission s (line 34)
  aborted,        \* the controllers whose signal is aborted
  nsub,           \* number of submissions made
  pc,             \* the await each invocation of handleSearch is at
  call,           \* the call (1, 2, 3) it last sent to the network; 0 when not running
  sig,            \* the controller whose signal its pending request carries; 0: none
  body,           \* the body of that response, once fully received
  timers          \* pending timers, in order of expiry

vars ==
  <<apiBase, errorMessage, showError, loader, userInfo, userRatings, userProblems,
    current, aborted, nsub, pc, call, sig, body, timers>>

Init ==
  /\ apiBase \in ApiBases
  /\ errorMessage = <<>>
  /\ showError = FALSE
  /\ loader = FALSE
  /\ userInfo = 0
  /\ userRatings = 0
  /\ userProblems = 0
  /\ current = 0
  /\ aborted = {}
  /\ nsub = 0
  /\ pc = [s \in Subs |-> "idle"]
  /\ call = [s \in Subs |-> 0]
  /\ sig = [s \in Subs |-> 0]
  /\ body = [s \in Subs |-> NoBody]
  /\ timers = <<>>

\* No continuation is ready to run: the event loop takes the next task.
Quiescent == \A s \in Subs : pc[s] # "aborted"

\* Rejects, were the signal not handed to fetch (lines 58, 65, 72): only a
\* body read in progress is rejected.
Rejects_ReadOnly(c, s) ==
  /\ c \notin aborted
  /\ sig[s] = c
  /\ pc[s] \in {"text", "json"}
  /\ body[s] = NoBody

\* AbortController.abort() on controller c: the pending fetch and the body
\* read in progress of every request carrying c's signal are rejected with
\* AbortError.  A body that has been received in full is no longer readable
\* and is not affected: the read resolves.  abort() of an aborted controller
\* does nothing.
Rejects(c, s) ==
  /\ c \notin aborted
  /\ sig[s] = c
  /\ pc[s] \in {"fetch", "text", "json"}
  /\ body[s] = NoBody

\* The aborted controllers, were abort() never called.
AbortedAfter_Skip(c) == aborted

\* The aborted controllers after abort() on controller c, lines 33 and 52.
AbortedAfter(c) == aborted \cup {c}

AbortFetches(c) ==
  [s \in Subs |-> IF Rejects(c, s) THEN "aborted" ELSE pc[s]]

\* The controller the timeout callback aborts, line 52.
TimeoutTarget(s) == current

\* The timers left by clearTimeout(timeoutId) of submission s, line 77.
ClearTimeout(s) ==
  SelectSeq(timers, LAMBDA t : ~(t.kind = "timeout" /\ t.sub = s))

\* TimersAfterCatch without the setTimeout of line 96.
TimersAfterCatch_NoDismiss(s) == timers

\* The timers after the failure branch of submission s, lines 79-97: the
\* timeout timer is left as it is, the dismiss timer is started (its callback
\* refers to no submission: sub is 0).
TimersAfterCatch(s) ==
  Append(timers, [kind |-> "dismiss", sub |-> 0])

\* The catch branch, lines 79-97, of submission s for the exception error.
CatchBranch(s, error) ==
  /\ loader' = FALSE
  /\ errorMessage' = Classify(error)
  /\ showError' = TRUE
  /\ timers' = TimersAfterCatch(s)
  /\ sig' = [sig EXCEPT ![s] = 0]
  /\ call' = [call EXCEPT ![s] = 0]
  /\ body' = [body EXCEPT ![s] = NoBody]

\* The reset of lines 39-41, were setUserProblems(null) left out.
ResetResults_Partial ==
  /\ userInfo' = 0
  /\ userRatings' = 0
  /\ UNCHANGED userProblems

\* The reset of the result slots, lines 39-41.
ResetResults ==
  /\ userInfo' = 0
  /\ userRatings' = 0
  /\ userProblems' = 0

\* handleSearch up to its first await, lines 28-59 (and 79-97 when the
\* configuration check throws).
Submit ==
  /\ Quiescent
  /\ nsub < MaxSubmissions
  /\ LET s == nsub + 1 IN
       /\ nsub' = s
       /\ aborted' = AbortedAfter(current)
       /\ current' = s
       /\ ResetResults
       /\ UNCHANGED apiBase
       /\ IF Misconfigured(apiBase)
            THEN /\ pc' = [AbortFetches(current) EXCEPT ![s] = "done"]
                 /\ CatchBranch(s, Err("Error", MsgConfig))
            ELSE /\ pc' = [AbortFetches(current) EXCEPT ![s] = "fetch"]
                 /\ loader' = TRUE
                 /\ showError' = FALSE
                 /\ timers' = Append(timers, [kind |-> "timeout", sub |-> s])
                 /\ call' = [call EXCEPT ![s] = 1]
                 /\ sig' = [sig EXCEPT ![s] = s]
                 /\ UNCHANGED <<errorMessage, body>>

\* The response headers of the pending request of s arrive: fetch resolves
\* and validateResponse goes by the content type to await response.text()
\* (line 17) or response.json() (line 21).
Response(s) ==
  /\ Quiescent
  /\ pc[s] = "fetch"
  /\ \E ct \in ContentTypes :
       pc' = [pc EXCEPT ![s] = IF IsJson(ct) THEN "json" ELSE "text"]
  /\ UNCHANGED <<apiBase, errorMessage, showError, loader, userInfo, userRatings,
                 userProblems, current, aborted, nsub, call, sig, body, timers>>

\* The body of the response has been received in full: the request is over.
BodyReceived(s) ==
  /\ Quiescent
  /\ pc[s] \in {"text", "json"}
  /\ body[s] = NoBody
  /\ \E b \in (IF pc[s] = "json" THEN JsonBodies ELSE TextBodies) :
       body' = [body EXCEPT ![s] = b]
  /\ UNCHANGED pc
  /\ sig' = [sig EXCEPT ![s] = 0]
  /\ UNCHANGED <<apiBase, errorMessage, showError, loader, userInfo, userRatings,
                 userProblems, current, aborted, nsub, call, timers>>

\* fetch, or the body read, fails in the transport: the catch branch runs.
TransportFailure(s) ==
  /\ Quiescent
  /\ pc[s] \in {"fetch", "text", "json"}
  /\ body[s] = NoBody
  /\ pc' = [pc EXCEPT ![s] = "done"]
  /\ CatchBranch(s, NetworkError)
  /\ UNCHANGED <<apiBase, userInfo, userRatings, userProblems, current, aborted,
                 nsub>>

\* The signal a fetch of the sequence carries, lines 58, 65 and 72.
FetchSignal(s) == current

\* response.text() or response.json() resolves and handleSearch goes on to
\* its next await or to its end, lines 17-25 and 60-78, or to its catch
\* branch.  A fetch on an aborted signal sends nothing and is rejected.
BodyResolved(s) ==
  /\ Quiescent
  /\ pc[s] \in {"text", "json"}
  /\ body[s] # NoBody
  /\ LET error == IF pc[s] = "text" THEN TextError(body[s]) ELSE JsonError(body[s])
         k == call[s] IN
       IF error # NoErr
         THEN /\ pc' = [pc EXCEPT ![s] = "done"]
              /\ CatchBranch(s, error)
              /\ UNCHANGED <<apiBase, userInfo, userRatings, userProblems, current,
                             aborted, nsub>>
         ELSE /\ userInfo' = IF k = 1 THEN s ELSE userInfo
              /\ userRatings' = IF k = 2 THEN s ELSE userRatings
              /\ userProblems' = IF k = 3 THEN s ELSE userProblems
              /\ body' = [body EXCEPT ![s] = NoBody]
              /\ UNCHANGED <<apiBase, errorMessage, showError, current, aborted, nsub>>
              /\ IF k < 3
                   THEN /\ IF FetchSignal(s) \in aborted
                             THEN /\ pc' = [pc EXCEPT ![s] = "aborted"]
                                  /\ UNCHANGED <<call, sig>>
                             ELSE /\ pc' = [pc EXCEPT ![s] = "fetch"]
                                  /\ call' = [call EXCEPT ![s] = k + 1]
                                  /\ sig' = [sig EXCEPT ![s] = FetchSignal(s)]
                        /\ UNCHANGED <<loader, timers>>
                   ELSE /\ pc' = [pc EXCEPT ![s] = "done"]
                        /\ timers' = ClearTimeout(s)
                        /\ loader' = FALSE
                        /\ call' = [call EXCEPT ![s] = 0]
                        /\ UNCHANGED sig

\* A catch branch that would also empty the result slots.
Cancelled_ClearsResults(s) ==
  /\ pc[s] = "aborted"
  /\ pc' = [pc EXCEPT ![s] = "done"]
  /\ CatchBranch(s, AbortError)
  /\ ResetResults
  /\ UNCHANGED <<apiBase, current, aborted, nsub>>

\* The catch branch of a sequence whose awaited promise was rejected with
\* AbortError, lines 79-97.
Cancelled(s) ==
  /\ pc[s] = "aborted"
  /\ pc' = [pc EXCEPT ![s] = "done"]
  /\ CatchBranch(s, AbortError)
  /\ UNCHANGED <<apiBase, userInfo, userRatings, userProblems, current, aborted,
                 nsub>>

\* The timeout timer of submission s expires, lines 51-54.  The exception
\* thrown at line 53 is thrown in the timer's task, outside the try block
\* of handleSearch, and reaches no handler.
TimeoutExpires ==
  /\ Quiescent
  /\ timers # <<>>
  /\ Head(timers).kind = "timeout"
  /\ LET c == TimeoutTarget(Head(timers).sub) IN
       /\ pc' = AbortFetches(c)
       /\ aborted' = AbortedAfter(c)
  /\ timers' = Tail(timers)
  /\ UNCHANGED <<apiBase, errorMessage, showError, loader, userInfo, userRatings,
                 userProblems, current, nsub, call, sig, body>>

\* An error auto-dismiss timer expires, line 96.
DismissExpires ==
  /\ Quiescent
  /\ timers # <<>>
  /\ Head(timers).kind = "dismiss"
  /\ showError' = FALSE
  /\ timers' = Tail(timers)
  /\ UNCHANGED <<apiBase, errorMessage, loader, userInfo, userRatings, userProblems,
                 current, aborted, nsub, pc, call, sig, body>>

Next ==
  \/ Submit
  \/ \E s \in Subs : Response(s)
  \/ \E s \in Subs : BodyReceived(s)
  \/ \E s \in Subs : TransportFailure(s)
  \/ \E s \in Subs : BodyResolved(s)
  \/ \E s \in Subs : Cancelled(s)
  \/ TimeoutExpires
  \/ DismissExpires

Spec == Init /\ [][Next]_vars

\* The scheduling of the host: a pending timer expires, a continuation that
\* is ready runs, and the task that resolves a body read which has received
\* its body runs.  Nothing is assumed of the network or of the user.
Fairness ==
  /\ WF_vars(TimeoutExpires)
  /\ WF_vars(DismissExpires)
  /\ \A s \in Subs : WF_vars(Cancelled(s))
  /\ \A s \in Subs : WF_vars(BodyResolved(s))

FairSpec == Spec /\ Fairness

----------------------------------------------------------------------------
\* Helpers of the properties.

\* Submission s is awaiting a fetch or a body read.
InFlight(s) == pc[s] \in {"fetch", "text", "json"}

\* The timeout timer of submission s is pending.
TimeoutPending(s) ==
  \E i \in 1..Len(timers) : timers[i].kind = "timeout" /\ timers[i].sub = s

\* This step is the expiry of the timeout timer of submission s.
TimeoutStepOf(s) ==
  /\ timers # <<>>
  /\ Head(timers) = [kind |-> "timeout", sub |-> s]
  /\ timers' = Tail(timers)
  /\ pc[s] # "json" \/ body[s] = NoBody \/ pc'[s] = pc[s]

\* This step is the one in which submission s completes with all three
\* calls validated (lines 75-78).
CompletesOk(s) ==
  /\ pc[s] = "json"
  /\ call[s] = 3
  /\ body[s] # NoBody
  /\ JsonError(body[s]) = NoErr
  /\ pc'[s] = "done"

----------------------------------------------------------------------------
\* C1: when a second submission is made while the first is in flight, only
\* the second submission's sequence writes the loading flag and the error
\* state from then on: while the latest submission is still loading, the
\* loading flag is set and no error is shown.
C1_OnlyLatestReports ==
  \A s \in Subs : (s = nsub /\ s >= 2 /\ InFlight(s)) => (loader /\ ~showError)

\* C2: every non-null result slot was written by the most recent submission.
C2_SlotsOfLatest ==
  /\ userInfo \in {0, nsub}
  /\ userRatings \in {0, nsub}
  /\ userProblems \in {0, nsub}

\* C3: the expiry of the timeout timer of submission n never rejects the
\* pending request of a later submission m.
C3_TimeoutSparesLater ==
  [][\A n \in Subs : \A m \in Subs :
       (TimeoutStepOf(n) /\ m > n /\ InFlight(m)) => pc'[m] # "aborted"]_vars

\* C4: once the sequence of a submission has ended, however it ended, its
\* timeout timer is no longer pending.
C4_TimerReleased ==
  \A s \in Subs : pc[s] = "done" => ~TimeoutPending(s)

\* C5: when the latest submission completes with its three calls validated,
\* the three slots hold its results, the loading flag is false and no error
\* is shown.
C5_SuccessIsClean ==
  [][\A s \in Subs :
       (CompletesOk(s) /\ s = nsub) =>
          /\ userInfo' = s /\ userRatings' = s /\ userProblems' = s
          /\ ~loader'
          /\ ~showError']_vars

\* The step writes no result slot with a result of submission s.
WritesNoSlot(s) ==
  /\ userInfo' = s => userInfo = s
  /\ userRatings' = s => userRatings = s
  /\ userProblems' = s => userProblems = s

\* C6: when the timeout timer of a submission expires while the submission
\* awaits a response or the body of one, the pending fetch or read is
\* rejected; the submission then ends
\* in the catch branch with "Request cancelled" shown and the loading flag
\* cleared; and a submission that has ended stays ended: it writes no slot
\* and sends no request.
C6_TimeoutCancels ==
  [][\A s \in Subs :
       /\ (TimeoutStepOf(s) /\ InFlight(s) /\ body[s] = NoBody) => pc'[s] = "aborted"
       /\ (pc[s] = "aborted" /\ pc'[s] # "aborted") =>
             /\ pc'[s] = "done"
             /\ errorMessage' = MsgCancelled
             /\ showError'
             /\ ~loader'
       /\ pc[s] \in {"aborted", "done"} =>
             /\ pc'[s] \in {"aborted", "done"}
             /\ call'[s] \in {call[s], 0}
             /\ WritesNoSlot(s)]_vars

\* The only submission made so far has ended with the cancellation error
\* before any response was validated: its own timeout timer has cancelled it.
C6_Witness ==
  /\ nsub = 1
  /\ pc[1] = "done"
  /\ userInfo = 0
  /\ errorMessage = MsgCancelled
  /\ showError
  /\ ~loader
  /\ ~TimeoutPending(1)

\* The configured base URL is absent, empty or does not start with "http".
BadBase ==
  \/ ~apiBase.defined
  \/ Len(apiBase.text) = 0
  \/ Len(apiBase.text) < 4
  \/ SubSeq(apiBase.text, 1, 4) # <<"h", "t", "t", "p">>

\* C7: with a bad base URL no submission sends a request or starts a timeout
\* timer; each submission aborts the previous controller, resets the slots
\* and ends at once with the loading flag cleared and the misconfiguration
\* message shown.
C7_BadBaseFailsFast ==
  /\ [](BadBase =>
          /\ \A s \in Subs : pc[s] \in {"idle", "done"} /\ call[s] = 0
                             /\ ~TimeoutPending(s)
          /\ nsub >= 1 =>
               /\ ~loader
               /\ errorMessage = MsgConfig
               /\ userInfo = 0 /\ userRatings = 0 /\ userProblems = 0
               /\ current = nsub
               /\ aborted = 0..(nsub - 1))
  /\ [][(BadBase /\ nsub' = nsub + 1) =>
          /\ showError'
          /\ Len(timers') = Len(timers) + 1
          /\ timers'[Len(timers')].kind = "dismiss"]_vars

\* Two submissions have been made with a bad base URL and the error of the
\* second is on display.
C7_Witness ==
  /\ BadBase
  /\ nsub = 2
  /\ showError
  /\ errorMessage = MsgConfig

\* C8: when the payload of the rating call has a status other than "OK", the
\* message shown is the payload's comment, whatever the comment is, and the
\* sequence ends without the submission-history call.  Stated for the
\* payloads that have a comment to show (for an empty one line 23 puts
\* "Unknown API error" in its place).
C8_CommentVerbatim ==
  [][\A s \in Subs :
       (/\ pc[s] = "json"
        /\ call[s] = 2
        /\ body[s] # NoBody
        /\ body[s].status # "OK"
        /\ body[s].comment # <<>>
        /\ pc'[s] # pc[s]) =>
          /\ pc'[s] = "done"
          /\ call'[s] = 0
          /\ showError'
          /\ errorMessage' = body[s].comment]_vars

\* C9 as claimed: once the user-info response has turned out not to be JSON,
\* the sequence ends with the NonJsonResponse diagnostic shown.
C9_AlwaysDiagnostic ==
  [][\A s \in Subs :
       (pc[s] = "text" /\ call[s] = 1 /\ pc'[s] = "done") =>
          /\ showError'
          /\ errorMessage' = MsgDiagnostic]_vars

\* C9 as amended: once the user-info response has turned out not to be JSON,
\* the sequence never writes a result slot and never sends the rating or the
\* submission-history call; when the text of the response has been read the
\* sequence ends with the NonJsonResponse diagnostic shown; when the read is
\* aborted or fails before that, it ends in the catch branch all the same.
C9_NonJsonEndsSequence ==
  /\ [](\A s \in Subs :
          (pc[s] = "text" /\ call[s] = 1) =>
             (userInfo # s /\ userRatings # s /\ userProblems # s))
  /\ [][\A s \in Subs :
          /\ (pc[s] = "text" /\ call[s] = 1) =>
                /\ pc'[s] \in {"text", "aborted", "done"}
                /\ call'[s] \in {1, 0}
                /\ WritesNoSlot(s)
                /\ (body[s] # NoBody /\ pc'[s] # "text") =>
                      /\ pc'[s] = "done"
                      /\ showError'
                      /\ ~loader'
                      /\ errorMessage' = MsgDiagnostic
          /\ pc[s] \in {"aborted", "done"} =>
                /\ pc'[s] \in {"aborted", "done"}
                /\ call'[s] \in {call[s], 0}
                /\ WritesNoSlot(s)]_vars

\* The user-info call of the only submission got a response that is not
\* JSON, and the submission has ended with the diagnostic on display.
C9_Witness ==
  /\ nsub = 1
  /\ pc[1] = "done"
  /\ showError
  /\ errorMessage = MsgDiagnostic
  /\ userInfo = 0

\* C10: a visible error is hidden only by a new submission or by the
\* auto-dismiss timer started when that error was set, which is the last
\* dismiss timer started.
C10_OwnDismissOnly ==
  [][(showError /\ ~showError' /\ nsub' = nsub) =>
        /\ timers # <<>>
        /\ Head(timers).kind = "dismiss"
        /\ \A i \in 2..Len(timers) : timers[i].kind # "dismiss"]_vars

\* C11: under the scheduling of the host every error shown disappears: a
\* visible error is eventually hidden, and once the submissions have stopped
\* the error-visibility flag ends up false for good.
C11_ErrorDisappears ==
  /\ showError ~> ~showError
  /\ <>[](~showError)

\* The error of the only submission has been hidden by its dismiss timer.
C11_Witness ==
  /\ nsub = 1
  /\ pc[1] = "done"
  /\ errorMessage # <<>>
  /\ ~showError
  /\ timers = <<>>

\* C12: the calls of a submission are sequential and never retried.  The
\* first call is sent by the submission itself; call k + 1 is sent only in
\* the step in which the body of call k, received in full with status "OK",
\* is written to its slot; the calls are sent in the order 1, 2, 3 and a
\* sequence that has ended sends nothing more.
C12_Sequential ==
  [][\A s \in Subs :
       /\ call'[s] \in {call[s], call[s] + 1, 0}
       /\ call'[s] <= 3
       /\ (call[s] = 0 /\ call'[s] = 1) => (nsub = s - 1 /\ nsub' = s)
       /\ (call[s] >= 1 /\ call'[s] = call[s] + 1) =>
             /\ pc[s] = "json"
             /\ body[s] # NoBody
             /\ body[s].status = "OK"
             /\ call[s] = 1 => userInfo' = s
             /\ call[s] = 2 => userRatings' = s
             /\ pc'[s] = "fetch"
       /\ pc[s] = "done" => (pc'[s] = "done" /\ call'[s] = 0)]_vars

\* A submission has sent its third call, with its profile and its ratings
\* written.
C12_Witness ==
  \E s \in Subs :
    /\ pc[s] = "fetch"
    /\ call[s] = 3
    /\ userInfo = s
    /\ userRatings = s

\* C13: exactly one controller is current at any time: every controller
\* created so far (that of line 10 and one per submission) other than the
\* one abortControllerRef.current refers to has been aborted, and the one it
\* refers to is the one the latest submission created.
\* A step that installs a new controller has aborted the one it replaces.
C13_OneCurrentToken ==
  /\ [](/\ current = nsub
        /\ \A c \in 0..nsub : c # current => c \in aborted
        /\ aborted \subseteq 0..nsub)
  /\ [][current' # current => (current \in aborted' /\ current' \notin aborted')]_vars

\* Two submissions have been made and the controller of the second, not
\* aborted, carries its pending request.
C13_Witness ==
  /\ nsub = 2
  /\ current = 2
  /\ aborted = {0, 1}
  /\ pc[2] = "fetch"

\* C14: whatever the state before it, a submission leaves the three result
\* slots empty, and when it comes to issue its first request the error is
\* hidden and the loading flag is true.
C14_SubmitClears ==
  [][nsub' = nsub + 1 =>
       /\ userInfo' = 0
       /\ userRatings' = 0
       /\ userProblems' = 0
       /\ pc'[nsub'] = "fetch" =>
            /\ call'[nsub'] = 1
            /\ ~showError'
            /\ loader']_vars

\* The second submission has just issued its first request; the error of
\* the first one, whose dismissal is still pending, was on display when it
\* was made.
C14_Witness ==
  /\ nsub = 2
  /\ pc[2] = "fetch"
  /\ call[2] = 1
  /\ body[2] = NoBody
  /\ errorMessage # <<>>
  /\ \E i \in DOMAIN timers : timers[i].kind = "dismiss"
  /\ ~showError
  /\ loader
  /\ userInfo = 0 /\ userRatings = 0 /\ userProblems = 0

\* C15: every pending request of a submission is bound to the signal of the
\* controller that this submission created, never to that of another
\* submission.
C15_OwnTokenOnly ==
  \A s \in Subs : sig[s] \in {0, s}

\* This step ends the sequence of submission s, begun earlier, in its catch
\* branch.
FailsNow(s) ==
  /\ pc[s] \in {"fetch", "text", "json", "aborted"}
  /\ pc'[s] = "done"
  /\ ~CompletesOk(s)

\* The three result slots are left as they are.
SlotsUnchanged == UNCHANGED <<userInfo, userRatings, userProblems>>

\* C16: the failure handling writes no result slot: the step in which a
\* sequence ends in its catch branch leaves the three slots unchanged, so
\* does the expiry of a timeout or auto-dismiss timer, and no step other
\* than a new submission empties a slot.
C16_FailureKeepsResults ==
  [][/\ \A s \in Subs : FailsNow(s) => SlotsUnchanged
     /\ (Len(timers') < Len(timers) /\ \A s \in Subs : ~CompletesOk(s)) =>
           SlotsUnchanged
     /\ (showError /\ ~showError' /\ nsub' = nsub) => SlotsUnchanged
     /\ nsub' = nsub =>
           /\ userInfo # 0 => userInfo' # 0
           /\ userRatings # 0 => userRatings' # 0
           /\ userProblems # 0 => userProblems' # 0]_vars

\* The only submission failed at its submission-history call; its error has
\* been dismissed and its profile and rating history are still set.
C16_Witness ==
  /\ nsub = 1
  /\ pc[1] = "done"
  /\ errorMessage # <<>>
  /\ ~showError
  /\ timers = <<>>
  /\ userInfo = 1
  /\ userRatings = 1
  /\ userProblems = 0

\* C17: every sequence that has begun ends, and whenever the loading flag is
\* true it later becomes false, whether the network answers or not.
C17_EverySequenceEnds ==
  /\ \A s \in Subs : (pc[s] # "idle") ~> (pc[s] = "done")
  /\ loader ~> ~loader

\* C18: the error thrown in the timeout callback never reaches the catch
\* branch: the message on display is never "Request timed out (10 seconds)",
\* and a sequence whose pending request was rejected, by the expiry of a
\* timeout timer or by a new submission alike, ends with "Request cancelled"
\* shown.
C18_TimeoutShownAsCancelled ==
  /\ [](errorMessage # MsgTimedOut)
  /\ [][\A s \in Subs :
          /\ (InFlight(s) /\ pc'[s] = "aborted") =>
                \/ nsub' = nsub + 1
                \/ \E n \in Subs : TimeoutStepOf(n)
                \/ pc[s] = "json" /\ body[s] # NoBody /\ current \in aborted
          /\ (pc[s] = "aborted" /\ pc'[s] = "done") =>
                (errorMessage' = MsgCancelled /\ showError')]_vars

\* The only submission was cancelled by its timeout timer after its profile
\* had been written, and "Request cancelled" is the message set.
C18_Witness ==
  /\ nsub = 1
  /\ pc[1] = "done"
  /\ userInfo = 1
  /\ ~TimeoutPending(1)
  /\ errorMessage = MsgCancelled

=============================================================================
